---- MODULE Spec2Model ----
(***************************************************************************)
(* Model of calvernaz/gcb: the circuit breaker (src/breaker.go) and the    *)
(* retrying round tripper built on it (src/circuit_breaker.go, with the    *)
(* Retrier of src/unnamed/part_002).                                       *)
(*                                                                         *)
(* One breaker and one rate limiter are shared by NumCalls concurrent      *)
(* callers of circuit.RoundTrip.  A call is Breaker.Execute around the     *)
(* retry loop: beforeRequest, the attempts with their backoff waits, then  *)
(* afterRequest and the return to the caller.  Time is a discrete clock.   *)
(***************************************************************************)
EXTENDS Integers, FiniteSets, Sequences, TLC

\* ------------------------------------------------------------------ bounds
NumCalls == 2      \* concurrent callers of RoundTrip
MaxCount == 3      \* no call starts once Counts.Requests has reached this
MaxGen == 4        \* no call starts once the generation has reached this
Burst == 1         \* size of the limiter's bucket
DurationBits == 6  \* width of time.Duration, in place of 64
MantissaBits == 4  \* width of a float64's mantissa, in place of 53
MaxExponent == 9   \* 2^MaxExponent is the first infinity, in place of 2^1024
MaxAttemptNum == 10 \* DefaultBackoff is applied to attempts 0..MaxAttemptNum
MaxPayloadLen == 2 \* a request body holds up to this many bytes
MaxBodyCalls == 3  \* the body function is called up to this many times
CountBits == 2     \* width of a field of Counts, in place of 32

\* --------------------------------------------------------------- constants
Open == 1
HalfOpen == 2
Close == 3
ZeroState == 0     \* the zero value of State, which has no name
defaultTimeout == 60
defaultRetryMax == 4
defaultTripThreshold == 5

Nil == "nil"
ErrTooManyRequests == "too many requests"
ErrOpenState == "circuit breaker is open"
rateLimitExceeded == "exceeded rate limit"
errMaxRetriesReached == "exceeded retry limit"
ctxErr == "context canceled"
transportErr == "transport error"

Calls == 1..NumCalls

Unlocked == 0      \* sync.Mutex held by nobody; a holder is a caller of Calls

NoPure == [fn |-> "none"]

\* cb: the Breaker; retrier: the Retrier; tokens: the Limiter's bucket;
\* calls: every caller's position in RoundTrip, its locals and its last result.
\* A time.Time is kept as its distance from the present: left = t - time.Now().
\* mutex: the holder of Breaker.mutex, where the critical sections are taken
\* step by step; pure: the inputs and result of a function studied on its own.
VARIABLES cb, retrier, tokens, calls, mutex, pure

vars == <<cb, retrier, tokens, calls, mutex, pure>>

\* -------------------------------------------------------------------- time
ZeroTime == [isZero |-> TRUE, left |-> 0]      \* time.Time{}

Add(d) == [isZero |-> FALSE, left |-> d]       \* time.Now().Add(d)

IsZero(t) == t.isZero

Before(t) == t.isZero \/ t.left < 0            \* t.Before(time.Now())

\* a tick later; a time already past stays past
Later(t) == IF t.isZero \/ t.left < 0 THEN t ELSE [t EXCEPT !.left = @ - 1]

\* ------------------------------------------------------------------ Counts
ZeroCounts ==
  [Requests |-> 0, TotalSuccesses |-> 0, TotalFailures |-> 0,
   ConsecutiveSuccesses |-> 0, ConsecutiveFailures |-> 0]

\* the fields of Counts are uint32: n++ is taken modulo 2^CountBits
Uint32Inc(n) == (n + 1) % (2 ^ CountBits)

countsOnRequest(c) == [c EXCEPT !.Requests = Uint32Inc(@)]

countsOnSuccess(c) ==
  [c EXCEPT !.TotalSuccesses = Uint32Inc(@),
            !.ConsecutiveSuccesses = Uint32Inc(@),
            !.ConsecutiveFailures = 0]

countsOnFailure(c) ==
  [c EXCEPT !.TotalFailures = Uint32Inc(@),
            !.ConsecutiveFailures = Uint32Inc(@),
            !.ConsecutiveSuccesses = 0]

countsClear(c) == ZeroCounts

\* ------------------------------------------------------------- trip predicates
defaultReadyToTrip(counts) == counts.ConsecutiveFailures > defaultTripThreshold

\* NewBreaker's predicate: Requests >= 3 && TotalFailures/Requests >= 0.6
newBreakerReadyToTrip(counts) ==
  counts.Requests >= 3 /\ 5 * counts.TotalFailures >= 3 * counts.Requests

\* a caller-supplied predicate (Settings.ReadyToTrip is any function of Counts)
twoInARowReadyToTrip(counts) == counts.ConsecutiveFailures >= 2

readyToTrip(b, counts) ==
  CASE b.readyToTrip = "default" -> defaultReadyToTrip(counts)
    [] b.readyToTrip = "ratio" -> newBreakerReadyToTrip(counts)
    [] OTHER -> twoInARowReadyToTrip(counts)

\* ----------------------------------------------------------------- Breaker
\* variant of toNewGeneration that keeps the counts of the old generation
toNewGenerationKeepingCounts(b) ==
  [b EXCEPT !.generation = @ + 1,
            !.expiry = CASE b.state = Close ->
                              IF b.interval = 0 THEN ZeroTime ELSE Add(b.interval)
                         [] b.state = Open -> Add(b.timeout)
                         [] OTHER -> ZeroTime]

toNewGeneration(b) ==
  [b EXCEPT !.generation = @ + 1,
            !.counts = countsClear(@),
            !.expiry = CASE b.state = Close ->
                              IF b.interval = 0 THEN ZeroTime ELSE Add(b.interval)
                         [] b.state = Open -> Add(b.timeout)
                         [] OTHER -> ZeroTime]

\* cb.hook is the last call of onStateChange(name, from, to), if one is installed
setState(b, state) ==
  IF b.state = state THEN b
  ELSE LET n == toNewGeneration([b EXCEPT !.state = state])
       IN IF b.onStateChange
          THEN [n EXCEPT !.hook = [from |-> b.state, to |-> state]]
          ELSE n

\* variant of currentState that lets the interval of Closed pass
currentStateWithoutRollover(b) ==
  CASE b.state = Open ->
         IF Before(b.expiry) THEN setState(b, HalfOpen) ELSE b
    [] OTHER -> b

\* variant of currentState that closes the breaker once its timeout is over
currentStateOpenToClose(b) ==
  CASE b.state = Close ->
         IF ~IsZero(b.expiry) /\ Before(b.expiry) THEN toNewGeneration(b) ELSE b
    [] b.state = Open ->
         IF Before(b.expiry) THEN setState(b, Close) ELSE b
    [] OTHER -> b

currentState(b) ==
  CASE b.state = Close ->
         IF ~IsZero(b.expiry) /\ Before(b.expiry) THEN toNewGeneration(b) ELSE b
    [] b.state = Open ->
         IF Before(b.expiry) THEN setState(b, HalfOpen) ELSE b
    [] OTHER -> b

\* variant of onSuccess that counts the trial successes and never closes
onSuccessNeverCloses(b, state) ==
  CASE state = Close -> [b EXCEPT !.counts = countsOnSuccess(@)]
    [] state = HalfOpen -> [b EXCEPT !.counts = countsOnSuccess(@)]
    [] OTHER -> b

\* variant of onSuccess that asks for one success more than maxRequests
onSuccessOneMore(b, state) ==
  CASE state = Close -> [b EXCEPT !.counts = countsOnSuccess(@)]
    [] state = HalfOpen ->
         LET c == [b EXCEPT !.counts = countsOnSuccess(@)]
         IN IF c.counts.ConsecutiveSuccesses > c.maxRequests
            THEN setState(c, Close) ELSE c
    [] OTHER -> b

onSuccess(b, state) ==
  CASE state = Close -> [b EXCEPT !.counts = countsOnSuccess(@)]
    [] state = HalfOpen ->
         LET c == [b EXCEPT !.counts = countsOnSuccess(@)]
         IN IF c.counts.ConsecutiveSuccesses >= c.maxRequests
            THEN setState(c, Close) ELSE c
    [] OTHER -> b

\* variant of onFailure that counts a failure in Close and never trips
onFailureNeverTrips(b, state) ==
  CASE state = Close -> [b EXCEPT !.counts = countsOnFailure(@)]
    [] state = HalfOpen -> setState(b, Open)
    [] OTHER -> b

\* variant of onFailure that lets a failure in HalfOpen pass
onFailureHalfOpenStays(b, state) ==
  CASE state = Close ->
         LET c == [b EXCEPT !.counts = countsOnFailure(@)]
         IN IF readyToTrip(c, c.counts) THEN setState(c, Open) ELSE c
    [] state = HalfOpen -> [b EXCEPT !.counts = countsOnFailure(@)]
    [] OTHER -> b

onFailure(b, state) ==
  CASE state = Close ->
         LET c == [b EXCEPT !.counts = countsOnFailure(@)]
         IN IF readyToTrip(c, c.counts) THEN setState(c, Open) ELSE c
    [] state = HalfOpen -> setState(b, Open)
    [] OTHER -> b

\* variant of beforeRequest that admits one trial request too many
beforeRequestOneMore(b) ==
  LET r == currentState(b)
  IN IF r.state = Open
     THEN [cb |-> r, generation |-> r.generation, err |-> ErrOpenState]
     ELSE IF r.state = HalfOpen /\ r.counts.Requests > r.maxRequests
     THEN [cb |-> r, generation |-> r.generation, err |-> ErrTooManyRequests]
     ELSE [cb |-> [r EXCEPT !.counts = countsOnRequest(@)],
           generation |-> r.generation, err |-> Nil]

\* variant of beforeRequest that counts the requests it rejects in Open
beforeRequestCountsRejected(b) ==
  LET r == currentState(b)
  IN IF r.state = Open
     THEN [cb |-> [r EXCEPT !.counts = countsOnRequest(@)],
           generation |-> r.generation, err |-> ErrOpenState]
     ELSE IF r.state = HalfOpen /\ r.counts.Requests >= r.maxRequests
     THEN [cb |-> r, generation |-> r.generation, err |-> ErrTooManyRequests]
     ELSE [cb |-> [r EXCEPT !.counts = countsOnRequest(@)],
           generation |-> r.generation, err |-> Nil]

\* the breaker after the call, the generation and the error it returns
beforeRequest(b) ==
  LET r == currentState(b)
  IN IF r.state = Open
     THEN [cb |-> r, generation |-> r.generation, err |-> ErrOpenState]
     ELSE IF r.state = HalfOpen /\ r.counts.Requests >= r.maxRequests
     THEN [cb |-> r, generation |-> r.generation, err |-> ErrTooManyRequests]
     ELSE [cb |-> [r EXCEPT !.counts = countsOnRequest(@)],
           generation |-> r.generation, err |-> Nil]

\* variant of afterRequest that takes the report of any generation
afterRequestAnyGeneration(b, before, success) ==
  LET r == currentState(b)
  IN IF success THEN onSuccess(r, r.state) ELSE onFailure(r, r.state)

afterRequest(b, before, success) ==
  LET r == currentState(b)
  IN IF r.generation # before THEN r
     ELSE IF success THEN onSuccess(r, r.state)
     ELSE onFailure(r, r.state)

NoHook == [from |-> ZeroState, to |-> ZeroState]

\* new(Breaker) with the settings copied in, before toNewGeneration
newBreakerFields(st, state) ==
  [maxRequests |-> IF st.MaxRequests = 0 THEN 1 ELSE st.MaxRequests,
   interval |-> st.Interval,
   timeout |-> IF st.Timeout = 0 THEN defaultTimeout ELSE st.Timeout,
   readyToTrip |-> IF st.ReadyToTrip = Nil THEN "default" ELSE st.ReadyToTrip,
   onStateChange |-> st.OnStateChange,
   hook |-> NoHook,
   state |-> state,
   generation |-> 0,
   counts |-> ZeroCounts,
   expiry |-> ZeroTime]

NewCircuitBreaker(st) == toNewGeneration(newBreakerFields(st, ZeroState))

NewBreaker ==
  NewCircuitBreaker([MaxRequests |-> 0, Interval |-> 0, Timeout |-> 45,
                     ReadyToTrip |-> "ratio", OnStateChange |-> TRUE])

\* NewBreaker(opts...), which newCircuitBreaker calls: the breaker starts Closed
NewBreakerOpts(st) == toNewGeneration(newBreakerFields(st, Close))

\* ----------------------------------------------------------------- Retrier
RECURSIVE Pow2(_)
Pow2(n) == IF n = 0 THEN 1 ELSE 2 * Pow2(n - 1)

\* time.Duration is a signed integer of DurationBits bits
MaxDuration == Pow2(DurationBits - 1) - 1

MinDuration == -Pow2(DurationBits - 1)

\* a float64 is a finite number, an infinity or NaN; its mantissa holds
\* MantissaBits bits and a magnitude of 2^MaxExponent or more is an infinity
Finite(v) == [kind |-> "finite", v |-> v]

PosInf == [kind |-> "inf", v |-> 1]

NegInf == [kind |-> "inf", v |-> -1]

NaN == [kind |-> "nan", v |-> 0]

RECURSIVE BitLen(_)
BitLen(n) == IF n = 0 THEN 0 ELSE 1 + BitLen(n \div 2)

\* the nearest number with MantissaBits significant bits, ties to even
RoundToMantissa(n) ==
  LET ulp == IF BitLen(n) > MantissaBits
             THEN Pow2(BitLen(n) - MantissaBits) ELSE 1
      q == n \div ulp
      r == n % ulp
  IN IF 2 * r < ulp THEN q * ulp
     ELSE IF 2 * r > ulp THEN (q + 1) * ulp
     ELSE IF q % 2 = 0 THEN q * ulp ELSE (q + 1) * ulp

\* float64(n) of an integer n
floatOfInt(n) ==
  IF n >= 0 THEN Finite(RoundToMantissa(n)) ELSE Finite(-RoundToMantissa(-n))

\* math.Pow(2, float64(k))
mathPow2(k) == IF k >= MaxExponent THEN PosInf ELSE Finite(Pow2(k))

\* p * f for p a power of two or +Inf: exact, unless it leaves the range
floatMul(p, f) ==
  IF p.kind = "inf"
  THEN IF f.kind = "nan" \/ f.v = 0 THEN NaN
       ELSE IF f.v > 0 THEN PosInf ELSE NegInf
  ELSE IF f.kind # "finite" THEN f
  ELSE LET v == p.v * f.v
       IN IF v >= Pow2(MaxExponent) THEN PosInf
          ELSE IF v <= -Pow2(MaxExponent) THEN NegInf
          ELSE Finite(v)

\* a != b on float64
floatNotEqual(a, b) == a.kind = "nan" \/ b.kind = "nan" \/ a # b

\* how a build converts a float64 that time.Duration cannot represent: the
\* result is implementation-dependent; cvttsd2si gives the least integer,
\* fcvtzs saturates and gives 0 for NaN
FloatToIntBuilds == {"amd64", "arm64"}

\* time.Duration(f)
durationOfFloat(build, f) ==
  IF f.kind = "finite" /\ f.v >= MinDuration /\ f.v <= MaxDuration THEN f.v
  ELSE IF build = "amd64" THEN MinDuration
  ELSE IF f.kind = "nan" THEN 0
  ELSE IF f.v > 0 THEN MaxDuration
  ELSE MinDuration

DefaultBackoff(build, min, max, attemptNum) ==
  LET mult == floatMul(mathPow2(attemptNum), floatOfInt(min))
      sleep == durationOfFloat(build, mult)
  IN IF floatNotEqual(floatOfInt(sleep), mult) \/ sleep > max
     THEN max ELSE sleep

NilResp == [StatusCode |-> 0, Body |-> "nil"]

Response(code) == [StatusCode |-> code, Body |-> "open"]

\* variant of DefaultRetryPolicy that retries transport errors only
DefaultRetryPolicyErrorsOnly(cancelled, resp, err) ==
  IF cancelled THEN [shouldRetry |-> FALSE, err |-> ctxErr]
  ELSE IF err # Nil THEN [shouldRetry |-> TRUE, err |-> err]
  ELSE [shouldRetry |-> FALSE, err |-> Nil]

\* variant of DefaultRetryPolicy that stops retrying above status 599
DefaultRetryPolicyTo599(cancelled, resp, err) ==
  IF cancelled THEN [shouldRetry |-> FALSE, err |-> ctxErr]
  ELSE IF err # Nil THEN [shouldRetry |-> TRUE, err |-> err]
  ELSE IF resp.StatusCode = 0
          \/ (resp.StatusCode >= 500 /\ resp.StatusCode <= 599
              /\ resp.StatusCode # 501)
  THEN [shouldRetry |-> TRUE, err |-> Nil]
  ELSE [shouldRetry |-> FALSE, err |-> Nil]

\* (shouldRetry, error) of the default policy
DefaultRetryPolicy(cancelled, resp, err) ==
  IF cancelled THEN [shouldRetry |-> FALSE, err |-> ctxErr]
  ELSE IF err # Nil THEN [shouldRetry |-> TRUE, err |-> err]
  ELSE IF resp.StatusCode = 0 \/ (resp.StatusCode >= 500 /\ resp.StatusCode # 501)
  THEN [shouldRetry |-> TRUE, err |-> Nil]
  ELSE [shouldRetry |-> FALSE, err |-> Nil]

\* Limiter.Allow() on a bucket holding tok tokens
limiterAllow(tok) == tok > 0

retryPolicy(tok, cancelled, resp, err) ==
  IF ~limiterAllow(tok) THEN [shouldRetry |-> FALSE, err |-> rateLimitExceeded]
  ELSE DefaultRetryPolicy(cancelled, resp, err)

\* opts is WithMaxRetries(n) or no option; the waits are left at zero
NewRetrier(opts) ==
  [RetryMax |-> IF opts.withMaxRetries THEN opts.maxRetries ELSE defaultRetryMax,
   RetryWaitMin |-> 0,
   RetryWaitMax |-> 0]

\* the test server: the first k requests of a call fail, later ones succeed
transport(script, reqNum) ==
  IF reqNum <= script.k
  THEN IF script.fail = transportErr
       THEN [resp |-> NilResp, err |-> transportErr]
       ELSE [resp |-> Response(500), err |-> Nil]
  ELSE [resp |-> Response(script.then), err |-> Nil]

\* variant of drainBody that leaves the body as it is
drainBodyLeavesOpen(resp) == resp

\* the body has been read through the LimitReader and closed
drainBody(resp) == [resp EXCEPT !.Body = "drained"]

\* the limit of the bytes that drainBody reads
respReadLimit == 4096

\* the bytes io.Copy gets from io.LimitReader(body, respReadLimit)
drainBodyRead(size) == IF size < respReadLimit THEN size ELSE respReadLimit

\* the size of the body of the test server's answers with status 500: the
\* first answer of a call is one byte longer than respReadLimit, the later
\* ones are empty
bodySize(reqNum) == IF reqNum = 1 THEN respReadLimit + 1 ELSE 0

\* what the test server does with the requests of one call
Scripts ==
  {[k |-> 0, fail |-> "500", then |-> 200],
   [k |-> 0, fail |-> "500", then |-> 404]} \cup
  [k : 1..(retrier.RetryMax + 1), fail : {"500", transportErr}, then : {200}]

IdleCall ==
  [pc |-> "idle", script |-> [k |-> 0, fail |-> "500", then |-> 200],
   generation |-> 0, i |-> 0, sent |-> 0, cancelled |-> FALSE, timer |-> 0,
   resp |-> NilResp, err |-> Nil, execErr |-> Nil, stale |-> FALSE,
   shouldRetry |-> FALSE, checkErr |-> Nil, outErr |-> Nil,
   sentWhileOpen |-> FALSE, drained |-> 0,
   ret |-> [res |-> NilResp, err |-> Nil]]

\* ----------------------------------------------------------------- actions
\* RoundTrip up to the first attempt: Execute calls beforeRequest
RoundTripStart(c) ==
  /\ calls[c].pc = "idle"
  /\ cb.counts.Requests < MaxCount
  /\ cb.generation < MaxGen
  /\ \E script \in Scripts :
       LET r == beforeRequest(cb)
       IN /\ cb' = r.cb
          /\ calls' = [calls EXCEPT ![c] =
               IF r.err # Nil
               THEN [IdleCall EXCEPT !.execErr = r.err,
                                     !.ret = [res |-> NilResp, err |-> Nil]]
               ELSE [IdleCall EXCEPT !.pc = "attempt", !.script = script,
                                     !.generation = r.generation]]
  /\ UNCHANGED <<retrier, tokens, mutex, pure>>

\* variant of Attempt in which every attempt is admitted by the breaker anew
AttemptWithOwnAdmit(c) ==
  LET call == calls[c]
      out == transport(call.script, call.sent + 1)
      pol == retryPolicy(tokens, call.cancelled, out.resp, out.err)
      remain == retrier.RetryMax - call.i
      sent == [call EXCEPT !.sent = @ + 1, !.resp = out.resp, !.err = out.err,
                           !.shouldRetry = pol.shouldRetry,
                           !.checkErr = pol.err, !.outErr = out.err,
                           !.sentWhileOpen = (cb.state = Open)]
  IN /\ call.pc = "attempt"
     /\ tokens' = IF limiterAllow(tokens) THEN tokens - 1 ELSE tokens
     /\ \E build \in FloatToIntBuilds : calls' = [calls EXCEPT ![c] =
          IF ~pol.shouldRetry
          THEN [sent EXCEPT !.pc = "report",
                            !.err = IF pol.err # Nil THEN pol.err ELSE out.err]
          ELSE IF remain <= 0
          THEN [sent EXCEPT !.pc = "report", !.err = errMaxRetriesReached]
          ELSE [sent EXCEPT !.pc = "backoff",
                  !.resp = IF out.err = Nil /\ out.resp # NilResp
                           THEN drainBody(out.resp) ELSE out.resp,
                  !.drained = IF out.err = Nil /\ out.resp # NilResp
                              THEN drainBodyRead(bodySize(call.sent + 1))
                              ELSE 0,
                  !.timer = DefaultBackoff(build, retrier.RetryWaitMin,
                                           retrier.RetryWaitMax, call.i)]]
     /\ cb' = beforeRequest(cb).cb
     /\ UNCHANGED <<retrier, mutex, pure>>

\* one iteration of the retry loop, up to its return, its break or its select
Attempt(c) ==
  LET call == calls[c]
      out == transport(call.script, call.sent + 1)
      pol == retryPolicy(tokens, call.cancelled, out.resp, out.err)
      remain == retrier.RetryMax - call.i
      sent == [call EXCEPT !.sent = @ + 1, !.resp = out.resp, !.err = out.err,
                           !.shouldRetry = pol.shouldRetry,
                           !.checkErr = pol.err, !.outErr = out.err,
                           !.sentWhileOpen = (cb.state = Open)]
  IN /\ call.pc = "attempt"
     /\ tokens' = IF limiterAllow(tokens) THEN tokens - 1 ELSE tokens
     /\ \E build \in FloatToIntBuilds : calls' = [calls EXCEPT ![c] =
          IF ~pol.shouldRetry
          THEN [sent EXCEPT !.pc = "report",
                            !.err = IF pol.err # Nil THEN pol.err ELSE out.err]
          ELSE IF remain <= 0
          THEN [sent EXCEPT !.pc = "report", !.err = errMaxRetriesReached]
          ELSE [sent EXCEPT !.pc = "backoff",
                  !.resp = IF out.err = Nil /\ out.resp # NilResp
                           THEN drainBody(out.resp) ELSE out.resp,
                  !.drained = IF out.err = Nil /\ out.resp # NilResp
                              THEN drainBodyRead(bodySize(call.sent + 1))
                              ELSE 0,
                  !.timer = DefaultBackoff(build, retrier.RetryWaitMin,
                                           retrier.RetryWaitMax, call.i)]]
     /\ UNCHANGED <<cb, retrier, mutex, pure>>

\* the select of the backoff wait: the timer fires
BackoffTimer(c) ==
  /\ calls[c].pc = "backoff"
  /\ calls[c].timer = 0
  /\ calls' = [calls EXCEPT ![c].pc = "attempt", ![c].i = @ + 1]
  /\ UNCHANGED <<cb, retrier, tokens, mutex, pure>>

\* the select of the backoff wait: the context is done
BackoffCancelled(c) ==
  /\ calls[c].pc = "backoff"
  /\ calls[c].cancelled
  /\ calls' = [calls EXCEPT ![c].pc = "report", ![c].resp = NilResp,
                            ![c].err = ctxErr, ![c].timer = 0]
  /\ UNCHANGED <<cb, retrier, tokens, mutex, pure>>

\* variant of RoundTripEnd that reports by the errors of the last attempt only
RoundTripEndByLastAttempt(c) ==
  LET call == calls[c]
  IN /\ call.pc = "report"
     /\ cb' = afterRequest(cb, call.generation,
                           call.outErr = Nil /\ call.checkErr = Nil)
     /\ calls' = [calls EXCEPT ![c] =
          [IdleCall EXCEPT !.execErr = call.err, !.sent = call.sent,
             !.generation = call.generation,
             !.stale = (currentState(cb).generation # call.generation),
             !.ret = [res |-> IF call.err = Nil
                              THEN [call.resp EXCEPT !.Body = "closed"]
                              ELSE call.resp,
                      err |-> Nil]]]
     /\ UNCHANGED <<retrier, tokens, mutex, pure>>

\* Execute calls afterRequest and RoundTrip returns to its caller
RoundTripEnd(c) ==
  LET call == calls[c]
  IN /\ call.pc = "report"
     /\ cb' = afterRequest(cb, call.generation, call.err = Nil)
     /\ calls' = [calls EXCEPT ![c] =
          [IdleCall EXCEPT !.execErr = call.err, !.sent = call.sent,
             !.generation = call.generation,
             !.stale = (currentState(cb).generation # call.generation),
             !.ret = [res |-> IF call.err = Nil
                              THEN [call.resp EXCEPT !.Body = "closed"]
                              ELSE call.resp,
                      err |-> Nil]]]
     /\ UNCHANGED <<retrier, tokens, mutex, pure>>

\* the caller cancels the request's context, or its deadline passes
Cancel(c) ==
  /\ calls[c].pc \in {"attempt", "backoff"}
  /\ ~calls[c].cancelled
  /\ calls' = [calls EXCEPT ![c].cancelled = TRUE]
  /\ UNCHANGED <<cb, retrier, tokens, mutex, pure>>

\* a tick passes: every time is one tick nearer, the limiter's bucket refills
Tick ==
  /\ cb' = [cb EXCEPT !.expiry = Later(@)]
  /\ calls' = [c \in Calls |->
                 [calls[c] EXCEPT !.timer = IF @ > 0 THEN @ - 1 ELSE @]]
  /\ tokens' = IF tokens < Burst THEN tokens + 1 ELSE tokens
  /\ <<cb, calls, tokens>>' # <<cb, calls, tokens>>
  /\ UNCHANGED <<retrier, mutex, pure>>

Next ==
  \/ \E c \in Calls : RoundTripStart(c)
  \/ \E c \in Calls : Attempt(c)
  \/ \E c \in Calls : BackoffTimer(c)
  \/ \E c \in Calls : BackoffCancelled(c)
  \/ \E c \in Calls : RoundTripEnd(c)
  \/ \E c \in Calls : Cancel(c)
  \/ Tick

\* ------------------------------------------------------------ specifications
SettingsSet ==
  {[MaxRequests |-> 0, Interval |-> 0, Timeout |-> 0, ReadyToTrip |-> Nil,
    OnStateChange |-> FALSE],
   [MaxRequests |-> 2, Interval |-> 2, Timeout |-> 1, ReadyToTrip |-> "twice",
    OnStateChange |-> TRUE]}

RetrierOptions ==
  {[withMaxRetries |-> FALSE, maxRetries |-> 0],
   [withMaxRetries |-> TRUE, maxRetries |-> 1],
   [withMaxRetries |-> TRUE, maxRetries |-> 2]}

InitRest ==
  /\ tokens = Burst
  /\ calls = [c \in Calls |-> IdleCall]
  /\ mutex = Unlocked
  /\ pure = NoPure

\* the program as src/breaker.go constructs it
Init ==
  /\ InitRest
  /\ cb \in {NewBreaker} \cup {NewCircuitBreaker(st) : st \in SettingsSet}
  /\ retrier \in {NewRetrier(opts) : opts \in RetrierOptions}

Spec == Init /\ [][Next]_vars

OptsSet ==
  {[MaxRequests |-> 0, Interval |-> 0, Timeout |-> 1, ReadyToTrip |-> "twice",
    OnStateChange |-> TRUE],
   [MaxRequests |-> 2, Interval |-> 2, Timeout |-> 1, ReadyToTrip |-> "ratio",
    OnStateChange |-> TRUE]}

\* the round tripper's breaker, NewBreaker(opts...)
InitOpts ==
  /\ InitRest
  /\ cb \in {NewBreakerOpts(st) : st \in OptsSet}
  /\ retrier = NewRetrier([withMaxRetries |-> TRUE, maxRetries |-> 1])

SpecOpts == InitOpts /\ [][Next]_vars

\* ------------------------------------------------------------------ properties
\* steps of one call c, as its caller and the breaker see them
AdmitStep(c) == calls[c].pc = "idle" /\ calls'[c] # calls[c]

Admitted(c) == calls[c].pc = "idle" /\ calls'[c].pc = "attempt"

ReportStep(c) == calls[c].pc = "report" /\ calls'[c].pc = "idle"

\* the Counts after one more failure, field by field
FailureCounted(counts) ==
  [Requests |-> counts.Requests,
   TotalSuccesses |-> counts.TotalSuccesses,
   TotalFailures |-> counts.TotalFailures + 1,
   ConsecutiveSuccesses |-> 0,
   ConsecutiveFailures |-> counts.ConsecutiveFailures + 1]

\* a lazy transition is due at the next Admit or Report
RolloverDue == cb.state = Close /\ ~cb.expiry.isZero /\ cb.expiry.left < 0

TimeoutElapsed == cb.state = Open /\ cb.expiry.left < 0

LazyDue == RolloverDue \/ TimeoutElapsed

ResolvedGeneration == IF LazyDue THEN cb.generation + 1 ELSE cb.generation

\* admitted calls of generation g that have not reported yet
InFlight(g) ==
  Cardinality({c \in Calls : calls[c].pc # "idle" /\ calls[c].generation = g})

TrialsInFlight == InFlight(cb.generation)

\* the Expiry a generation starts with, by state
ExpiryOfNewGeneration(state) ==
  CASE state = Close -> IF cb.interval = 0 THEN ZeroTime
                        ELSE [isZero |-> FALSE, left |-> cb.interval]
    [] state = Open -> [isZero |-> FALSE, left |-> cb.timeout]
    [] OTHER -> ZeroTime

NoCallYet == \A c \in Calls : calls[c] = IdleCall

\* C1: a breaker fresh from NewCircuitBreaker or NewBreaker, before any call,
\* is in the Closed state, not Open, HalfOpen or any other value
C1_FreshBreakerIsClosed ==
  (NoCallYet /\ cb.generation = 1 /\ cb.counts = ZeroCounts) => cb.state = Close

Always500(c) ==
  calls[c].script.fail = "500" /\ calls[c].script.k > retrier.RetryMax

AlwaysTransportError(c) ==
  calls[c].script.fail = transportErr /\ calls[c].script.k > retrier.RetryMax

\* the context stayed live and the limiter granted every token
Undisturbed(c) == ~calls[c].cancelled /\ calls[c].err # rateLimitExceeded

\* C8: with RetryMax = N and a transport that always answers 500, the
\* transport is invoked exactly N + 1 times and the caller is then returned
\* the retries-exhausted error
C8_ExhaustedReturnsError ==
  [][\A c \in Calls :
       (ReportStep(c) /\ Always500(c) /\ Undisturbed(c))
       => /\ calls[c].sent = retrier.RetryMax + 1
          /\ calls'[c].ret.err = errMaxRetriesReached
  ]_vars

C10_ErrorReachesCaller ==
  [][\A c \in Calls :
       /\ (ReportStep(c) /\ AlwaysTransportError(c)) => calls'[c].ret.err # Nil
       /\ (ReportStep(c) /\ calls[c].err # Nil) => calls'[c].ret.err # Nil
  ]_vars

\* C11: a call whose context is cancelled while it waits in the backoff
\* leaves the wait without going on to another attempt, its count of
\* transport invocations stays as it was at the cancellation, also when the
\* timer is ready too, and it returns the context's error to its caller
C11_CancelDuringBackoff ==
  [][\A c \in Calls :
       /\ (calls[c].pc = "backoff" /\ calls[c].cancelled)
          => /\ calls'[c].pc # "attempt"
             /\ calls'[c].sent = calls[c].sent
       /\ (ReportStep(c) /\ calls[c].shouldRetry /\ calls[c].err = ctxErr)
          => calls'[c].ret.err = ctxErr
  ]_vars

AttemptStep(c) ==
  calls[c].pc = "attempt" /\ calls'[c].sent = calls[c].sent + 1

LoopStep(c) ==
  calls[c].pc \in {"attempt", "backoff"} /\ calls'[c] # calls[c]

SuccessCounted(counts) ==
  [Requests |-> counts.Requests,
   TotalSuccesses |-> counts.TotalSuccesses + 1,
   TotalFailures |-> counts.TotalFailures,
   ConsecutiveSuccesses |-> counts.ConsecutiveSuccesses + 1,
   ConsecutiveFailures |-> 0]

\* a Report of the current generation to a Closed breaker: what it is
\* reported as shows in the Counts
ReportInClosed(c) ==
  /\ ReportStep(c)
  /\ cb.state = Close
  /\ ~RolloverDue
  /\ calls[c].generation = cb.generation

ReportedAsSuccess == cb'.state = Close /\ cb'.counts = SuccessCounted(cb.counts)

ReportedAsFailure ==
  \/ cb'.state = Close /\ cb'.counts = FailureCounted(cb.counts)
  \/ cb'.state = Open /\ readyToTrip(cb, FailureCounted(cb.counts))

IdleRoundTripper ==
  /\ tokens = Burst
  /\ calls = [c \in Calls |-> IdleCall]
  /\ mutex = Unlocked
  /\ cb = NewBreaker
  /\ retrier = NewRetrier([withMaxRetries |-> FALSE, maxRetries |-> 0])

NoOut == [none |-> TRUE]

StatusCodes == {0, 200, 404, 499, 500, 501, 502, 599, 600, 999}

PolicyInputs ==
  [cancelled : BOOLEAN, err : {Nil, transportErr}, status : StatusCodes]

\* DefaultRetryPolicy(ctx, resp, err) is called; a transport error comes
\* with a nil response
ApplyDefaultRetryPolicy ==
  /\ pure.fn = "DefaultRetryPolicy"
  /\ ~pure.done
  /\ pure' = [pure EXCEPT
       !.done = TRUE,
       !.out = DefaultRetryPolicy(pure.in.cancelled,
                                  IF pure.in.err # Nil THEN NilResp
                                  ELSE Response(pure.in.status),
                                  pure.in.err)]
  /\ UNCHANGED <<cb, retrier, tokens, calls, mutex>>

PolicyReturned == pure.fn = "DefaultRetryPolicy" /\ pure.done

\* C15 as stated: (false, ctxErr) when the context is done, else (true, err)
\* on a transport error, else (true, nil) for status 0 or 500..599 except
\* 501, else (false, nil), also for every status above 599
C15_PolicyTable ==
  PolicyReturned
  => pure.out =
       IF pure.in.cancelled THEN [shouldRetry |-> FALSE, err |-> ctxErr]
       ELSE IF pure.in.err # Nil
       THEN [shouldRetry |-> TRUE, err |-> pure.in.err]
       ELSE IF pure.in.status = 0
               \/ (pure.in.status \in 500..599 /\ pure.in.status # 501)
       THEN [shouldRetry |-> TRUE, err |-> Nil]
       ELSE [shouldRetry |-> FALSE, err |-> Nil]

\* C15 amended: (false, ctxErr) when the context is done, else (true, err)
\* on a transport error, else (true, nil) for status 0 and for every status
\* from 500 up except 501, statuses above 599 included, else (false, nil),
\* which covers 501 and every status from 1 to 499
C15_PolicyTableFrom500 ==
  PolicyReturned
  => pure.out =
       IF pure.in.cancelled THEN [shouldRetry |-> FALSE, err |-> ctxErr]
       ELSE IF pure.in.err # Nil
       THEN [shouldRetry |-> TRUE, err |-> pure.in.err]
       ELSE IF pure.in.status = 0
               \/ (pure.in.status >= 500 /\ pure.in.status # 501)
       THEN [shouldRetry |-> TRUE, err |-> Nil]
       ELSE [shouldRetry |-> FALSE, err |-> Nil]

\* C15 case: the policy has answered (true, nil) to a response of status 999
\* with a live context and no transport error
C15_Witness ==
  /\ PolicyReturned
  /\ ~pure.in.cancelled
  /\ pure.in.err = Nil
  /\ pure.in.status = 999
  /\ pure.out = [shouldRetry |-> TRUE, err |-> Nil]

BackoffInputs ==
  [build : FloatToIntBuilds, min : 0..MaxDuration, max : 0..MaxDuration,
   attemptNum : 0..MaxAttemptNum]

\* DefaultBackoff(min, max, attemptNum, resp) is called
ApplyDefaultBackoff ==
  /\ pure.fn = "DefaultBackoff"
  /\ ~pure.done
  /\ pure' = [pure EXCEPT
       !.done = TRUE,
       !.out = DefaultBackoff(pure.in.build, pure.in.min, pure.in.max,
                              pure.in.attemptNum)]
  /\ UNCHANGED <<cb, retrier, tokens, calls, mutex>>

BackoffReturned == pure.fn = "DefaultBackoff" /\ pure.done

\* C19: DefaultBackoff(min, max, k) is the lesser of min * 2^k and max for
\* every k >= 0, and it is max when min * 2^k is beyond the greatest
\* duration (a product beyond it is above max, so this is one formula)
C19_BackoffIsClampedProduct ==
  BackoffReturned
  => pure.out = IF pure.in.min * Pow2(pure.in.attemptNum) > pure.in.max
                THEN pure.in.max
                ELSE pure.in.min * Pow2(pure.in.attemptNum)

\* the kinds of rawBody that getBodyReaderAndContentLength takes
InMemoryKinds == {"[]byte", "*bytes.Buffer", "*bytes.Reader"}

BodyKinds ==
  InMemoryKinds \cup
  {"ReaderFunc", "func() (io.Reader, error)", "io.ReadSeeker", "io.Reader"}

Payloads == UNION {[1..n -> {"a", "b"}] : n \in 0..MaxPayloadLen}

\* hasLen: the reader that the source is, or returns, implements LenReader
BodyInputs ==
  [kind : InMemoryKinds \cup {"io.Reader"}, payload : Payloads, hasLen : {TRUE}]
  \cup
  [kind : {"ReaderFunc", "func() (io.Reader, error)", "io.ReadSeeker"},
   payload : Payloads, hasLen : BOOLEAN]

\* what the returned body function does at each call, and the length:
\* newReader: a new reader over the bytes kept at construction;
\* callBody: the caller's function is called and gives a new reader;
\* sameReader: the one reader obtained at construction is returned again;
\* seekStart: the source is sought to its start and returned again
getBodyReaderAndContentLength(rawBody) ==
  [bodyReader |->
     CASE rawBody.kind = "ReaderFunc" -> "callBody"
       [] rawBody.kind = "func() (io.Reader, error)" -> "sameReader"
       [] rawBody.kind = "io.ReadSeeker" -> "seekStart"
       [] OTHER -> "newReader",
   contentLength |->
     IF rawBody.kind \in InMemoryKinds \cup {"io.Reader"} \/ rawBody.hasLen
     THEN Len(rawBody.payload) ELSE 0]

\* the state of a body: shared is the position of the reader that the body
\* function hands out again, streams the streams it has returned, out the
\* content that the last of them had to give when it was returned
NewBody(rawBody) ==
  [fn |-> "bodyReader", in |-> rawBody, done |-> FALSE, out |-> <<>>,
   body |-> getBodyReaderAndContentLength(rawBody),
   shared |-> 0, streams |-> <<>>]

StreamPos(i) ==
  IF pure.streams[i].shared THEN pure.shared ELSE pure.streams[i].pos

\* bodyReader() is called once more
BodyReaderCall ==
  /\ pure.fn = "bodyReader"
  /\ Len(pure.streams) < MaxBodyCalls
  /\ LET kind == pure.body.bodyReader
         shared == kind \in {"sameReader", "seekStart"}
         pos == IF kind = "sameReader" THEN pure.shared ELSE 0
     IN pure' = [pure EXCEPT
          !.done = TRUE,
          !.shared = IF kind = "seekStart" THEN 0 ELSE @,
          !.streams = Append(@, [shared |-> shared, pos |-> 0]),
          !.out = SubSeq(pure.in.payload, pos + 1, Len(pure.in.payload))]
  /\ UNCHANGED <<cb, retrier, tokens, calls, mutex>>

\* the transport reads one byte from a stream it was given
BodyRead ==
  /\ pure.fn = "bodyReader"
  /\ \E i \in 1..Len(pure.streams) :
       /\ StreamPos(i) < Len(pure.in.payload)
       /\ pure' = IF pure.streams[i].shared
                  THEN [pure EXCEPT !.shared = @ + 1]
                  ELSE [pure EXCEPT !.streams[i].pos = @ + 1]
  /\ UNCHANGED <<cb, retrier, tokens, calls, mutex>>

\* the functions are applied to every input of the sets above
InitPure ==
  /\ IdleRoundTripper
  /\ pure \in
       [fn : {"DefaultRetryPolicy"}, in : PolicyInputs,
        done : {FALSE}, out : {NoOut}]
       \cup [fn : {"DefaultBackoff"}, in : BackoffInputs,
             done : {FALSE}, out : {NoOut}]
       \cup {NewBody(rawBody) : rawBody \in BodyInputs}

NextPure ==
  \/ ApplyDefaultRetryPolicy
  \/ ApplyDefaultBackoff
  \/ BodyReaderCall
  \/ BodyRead

SpecPure == InitPure /\ [][NextPure]_vars

\* C18: for every kind of body source, each of any number of calls of the
\* body function returns a stream whose whole content is the original
\* payload, however much of the streams returned before was read, and the
\* content length is the payload's length for the in-memory sources
C18_BodyReplays ==
  (pure.fn = "bodyReader" /\ pure.done)
  => /\ pure.out = pure.in.payload
     /\ pure.in.kind \in InMemoryKinds
        => pure.body.contentLength = Len(pure.in.payload)

\* C16: when CheckRetry answers shouldRetry = false for an attempt, the call
\* ends there, with no wait and no further attempt whatever budget remains,
\* and returns that attempt's response with CheckRetry's error if it gave
\* one, else the transport's
C16_NoRetryReturnsAtOnce ==
  [][\A c \in Calls :
       /\ (AttemptStep(c) /\ ~calls'[c].shouldRetry)
          => calls'[c].pc = "report"
       /\ (ReportStep(c) /\ ~calls[c].shouldRetry)
          => /\ calls'[c].sent = calls[c].sent
             /\ calls'[c].ret.res.StatusCode = calls[c].resp.StatusCode
             /\ calls'[c].ret.err = IF calls[c].checkErr # Nil
                                    THEN calls[c].checkErr
                                    ELSE calls[c].outErr
  ]_vars

\* C17: the limiter's token is asked for before the attempt: when the
\* limiter has no token the iteration does not invoke the transport, and the
\* call ends, without retrying, with the rate-limit-exceeded error
C17_TokenBeforeAttempt ==
  [][\A c \in Calls :
       /\ (calls[c].pc = "attempt" /\ calls'[c].pc # "attempt"
           /\ ~limiterAllow(tokens))
          => /\ calls'[c].sent = calls[c].sent
             /\ calls'[c].pc = "report"
             /\ calls'[c].err = rateLimitExceeded
       /\ (ReportStep(c) /\ calls[c].err = rateLimitExceeded)
          => calls'[c].ret.err = rateLimitExceeded
  ]_vars

\* ------------------------------------------ the breaker's critical sections
\* Execute taken step by step: the mutex is locked, the method runs up to a
\* call of onStateChange or to its end, the hook runs, the deferred Unlock
\* runs when the method returns.  The request itself is any func that ends
\* with an error or without one.
HookPcs == {"onStateChange in beforeRequest", "onStateChange in afterRequest"}

\* the value e of a panic in req(), which Execute recovers and raises again
panicValue == "panic"

\* how req() can end: with a nil error, with an error, in a panic
RequestOutcomes == {Nil, transportErr, panicValue}

\* setState is about to call the hook: the state has changed and a hook is set
CallsHook(before, after) == before.onStateChange /\ after.state # before.state

\* cb.mutex.Lock() at the head of beforeRequest
LockBeforeRequest(c) ==
  /\ calls[c].pc = "idle"
  /\ mutex = Unlocked
  /\ cb.counts.Requests < MaxCount
  /\ cb.generation < MaxGen
  /\ mutex' = c
  /\ calls' = [calls EXCEPT ![c] = [IdleCall EXCEPT !.pc = "beforeRequest"]]
  /\ UNCHANGED <<cb, retrier, tokens, pure>>

\* variant of BeforeRequestLocked whose Unlock waits for the end of Execute
BeforeRequestLockedAcrossRequest(c) ==
  /\ calls[c].pc \in {"beforeRequest", "onStateChange in beforeRequest"}
  /\ mutex = c
  /\ IF calls[c].pc = "beforeRequest" /\ CallsHook(cb, currentState(cb))
     THEN /\ cb' = currentState(cb)
          /\ calls' = [calls EXCEPT ![c].pc = "onStateChange in beforeRequest"]
          /\ UNCHANGED mutex
     ELSE LET r == beforeRequest(cb)
          IN /\ cb' = r.cb
             /\ mutex' = IF r.err # Nil THEN Unlocked ELSE c
             /\ calls' = [calls EXCEPT ![c] =
                  IF r.err # Nil
                  THEN [IdleCall EXCEPT !.execErr = r.err]
                  ELSE [IdleCall EXCEPT !.pc = "request",
                                        !.generation = r.generation]]
  /\ UNCHANGED <<retrier, tokens, pure>>

\* beforeRequest from currentState on: to the hook, if setState calls it,
\* else to the return, where the deferred Unlock runs
BeforeRequestLocked(c) ==
  /\ calls[c].pc \in {"beforeRequest", "onStateChange in beforeRequest"}
  /\ mutex = c
  /\ IF calls[c].pc = "beforeRequest" /\ CallsHook(cb, currentState(cb))
     THEN /\ cb' = currentState(cb)
          /\ calls' = [calls EXCEPT ![c].pc = "onStateChange in beforeRequest"]
          /\ UNCHANGED mutex
     ELSE LET r == beforeRequest(cb)
          IN /\ cb' = r.cb
             /\ mutex' = Unlocked
             /\ calls' = [calls EXCEPT ![c] =
                  IF r.err # Nil
                  THEN [IdleCall EXCEPT !.execErr = r.err]
                  ELSE [IdleCall EXCEPT !.pc = "request",
                                        !.generation = r.generation]]
  /\ UNCHANGED <<retrier, tokens, pure>>

\* variant of LockAfterRequest in which a panic of req() leaves Execute
\* without a report
LockAfterRequestUnlessPanic(c) ==
  /\ calls[c].pc = "request"
  /\ mutex = Unlocked
  /\ \E err \in RequestOutcomes :
       IF err = panicValue
       THEN /\ calls' = [calls EXCEPT ![c] = [IdleCall EXCEPT !.execErr = err]]
            /\ UNCHANGED mutex
       ELSE /\ calls' = [calls EXCEPT ![c].pc = "afterRequest", ![c].err = err]
            /\ mutex' = c
  /\ UNCHANGED <<cb, retrier, tokens, pure>>

\* req() has ended; afterRequest, called after its return or by the deferred
\* function that recovered its panic, locks the mutex
LockAfterRequest(c) ==
  /\ calls[c].pc = "request"
  /\ mutex = Unlocked
  /\ mutex' = c
  /\ \E err \in RequestOutcomes :
       calls' = [calls EXCEPT ![c].pc = "afterRequest", ![c].err = err]
  /\ UNCHANGED <<cb, retrier, tokens, pure>>

\* afterRequest from currentState on: to the hook, if setState calls it,
\* else to the return; the hook is the last thing afterRequest does.  Execute
\* then returns req's error, or raises req's panic again: execErr is either
AfterRequestLocked(c) ==
  /\ calls[c].pc \in {"afterRequest", "onStateChange in afterRequest"}
  /\ mutex = c
  /\ IF calls[c].pc = "afterRequest"
     THEN LET r == afterRequest(cb, calls[c].generation, calls[c].err = Nil)
          IN /\ cb' = r
             /\ IF CallsHook(cb, r)
                THEN /\ calls' = [calls EXCEPT
                            ![c].pc = "onStateChange in afterRequest"]
                     /\ UNCHANGED mutex
                ELSE /\ calls' = [calls EXCEPT ![c] =
                            [IdleCall EXCEPT !.execErr = calls[c].err]]
                     /\ mutex' = Unlocked
     ELSE /\ calls' = [calls EXCEPT ![c] =
                 [IdleCall EXCEPT !.execErr = calls[c].err]]
          /\ mutex' = Unlocked
          /\ UNCHANGED cb
  /\ UNCHANGED <<retrier, tokens, pure>>

\* the hook calls Execute on the breaker it reports on: beforeRequest's
\* cb.mutex.Lock() waits for a mutex that the hook's own goroutine holds
HookCallsBreaker(c) ==
  /\ calls[c].pc \in HookPcs
  /\ calls' = [calls EXCEPT ![c].pc = "mutex.Lock in onStateChange"]
  /\ UNCHANGED <<cb, retrier, tokens, mutex, pure>>

NextLock ==
  \/ \E c \in Calls : LockBeforeRequest(c)
  \/ \E c \in Calls : BeforeRequestLocked(c)
  \/ \E c \in Calls : LockAfterRequest(c)
  \/ \E c \in Calls : AfterRequestLocked(c)
  \/ \E c \in Calls : HookCallsBreaker(c)
  \/ Tick

SpecLock == InitOpts /\ [][NextLock]_vars

InRequest(c) == calls[c].pc = "request"

\* the bounds of the model leave room for one more Admit
RoomForAdmit == cb.counts.Requests < MaxCount /\ cb.generation < MaxGen

ReportLocked(c) ==
  calls[c].pc = "afterRequest" /\ calls'[c].pc # "afterRequest"

\* the Counts after one more success in HalfOpen, or the state it closes to
TrialSuccessReported ==
  \/ cb'.state = HalfOpen /\ cb'.counts = SuccessCounted(cb.counts)
  \/ /\ cb'.state = Close
     /\ SuccessCounted(cb.counts).ConsecutiveSuccesses >= cb.maxRequests

BodyAfterReturn(c) ==
  IF calls'[c].ret.res # NilResp THEN calls'[c].ret.res.Body
  ELSE calls[c].resp.Body

Exhausted(c) == ReportStep(c) /\ calls[c].err = errMaxRetriesReached

\* C23: a call whose attempts are used up returns no response and the
\* retries-exhausted error, and the body of its last response, if it has
\* one, is closed
C23_ExhaustedClosesLastBody ==
  [][\A c \in Calls :
       Exhausted(c)
       => /\ calls'[c].ret.res = NilResp
          /\ calls'[c].ret.err = errMaxRetriesReached
          /\ calls[c].resp # NilResp => BodyAfterReturn(c) = "closed"
  ]_vars

\* C24: the context is looked at before an attempt is issued: a call whose
\* context is already done when an iteration of its loop starts does not
\* invoke the transport, and it returns the context's error to its caller
C24_CancelCheckedBeforeAttempt ==
  [][\A c \in Calls :
       /\ (calls[c].pc = "attempt" /\ calls[c].cancelled)
          => calls'[c].sent = calls[c].sent
       /\ (ReportStep(c) /\ calls[c].checkErr = ctxErr)
          => calls'[c].ret.err = ctxErr
  ]_vars

\* a report of the generation the breaker is in, as a failure or as a success
CurrentFailureReport ==
  \E c \in Calls :
    ReportStep(c) /\ calls[c].err # Nil /\ calls[c].generation = cb.generation

CurrentSuccessReport ==
  \E c \in Calls :
    ReportStep(c) /\ calls[c].err = Nil /\ calls[c].generation = cb.generation

\* a step of Admit or Report
AdmitOrReport == \E c \in Calls : AdmitStep(c) \/ ReportStep(c)

NothingCleared(b, c) ==
  /\ c.Requests >= b.Requests
  /\ c.TotalSuccesses >= b.TotalSuccesses
  /\ c.TotalFailures >= b.TotalFailures
  /\ c.ConsecutiveSuccesses >= b.ConsecutiveSuccesses
       \/ c.TotalFailures > b.TotalFailures
  /\ c.ConsecutiveFailures >= b.ConsecutiveFailures
       \/ c.TotalSuccesses > b.TotalSuccesses

RejectedInOpen(c) == AdmitStep(c) /\ calls'[c].execErr = ErrOpenState

RetriedResponse(c) ==
  /\ calls[c].pc = "attempt"
  /\ calls'[c].pc = "backoff"
  /\ calls'[c].outErr = Nil

\* C28: when an attempt that produced a response is followed by another,
\* the body of that response has been drained, of at most respReadLimit
\* bytes, and closed when the backoff wait starts, and it is in that state
\* when the next attempt is invoked: no attempt after the first is issued
\* over an open body of the response before it
C28_DrainedBeforeRetry ==
  [][\A c \in Calls :
       /\ RetriedResponse(c)
          => /\ calls'[c].resp.Body = "drained"
             /\ calls'[c].drained <= respReadLimit
             /\ calls'[c].drained = bodySize(calls'[c].sent)
                  \/ /\ calls'[c].drained = respReadLimit
                     /\ bodySize(calls'[c].sent) > respReadLimit
       /\ (calls[c].pc = "backoff" /\ calls[c].outErr = Nil)
          => calls[c].resp.Body = "drained"
       /\ (AttemptStep(c) /\ calls[c].sent > 0 /\ calls[c].outErr = Nil)
          => calls[c].resp.Body = "drained"
  ]_vars

\* C28 case: a call is at its third attempt; the answer to its first had a
\* body longer than respReadLimit, the answer to its second, whose empty
\* body has been drained and closed, is the last response
C28_Witness ==
  \E c \in Calls :
    /\ calls[c].pc = "attempt"
    /\ calls[c].sent = 2
    /\ calls[c].outErr = Nil
    /\ calls[c].resp = [StatusCode |-> 500, Body |-> "drained"]
    /\ calls[c].drained = 0

\* ------------------------------------------------- the request body of a call
\* The loop of RoundTrip with the request's body in view: req.Body is one
\* stream, at position pos of the payload; starts holds, for every attempt,
\* the position of the stream when the transport was handed the request.
\* RoundTrip hands the same req to every attempt and does not touch
\* req.Body: the wrapping of the request in a body factory is commented out.
NewRequestWithBody(payload) ==
  [fn |-> "RoundTrip", in |-> payload, done |-> FALSE, out |-> NoOut,
   pos |-> 0, i |-> 0, starts |-> <<>>, pc |-> "attempt"]

\* c.RoundTripper.RoundTrip(req) is invoked
TransportInvoked ==
  /\ pure.fn = "RoundTrip"
  /\ pure.pc = "attempt"
  /\ pure' = [pure EXCEPT !.pc = "transport", !.starts = Append(@, pure.pos)]
  /\ UNCHANGED <<cb, retrier, tokens, calls, mutex>>

\* the transport reads one more byte of req.Body and sends it
TransportReadsBody ==
  /\ pure.fn = "RoundTrip"
  /\ pure.pc = "transport"
  /\ pure.pos < Len(pure.in)
  /\ pure' = [pure EXCEPT !.pos = @ + 1]
  /\ UNCHANGED <<cb, retrier, tokens, calls, mutex>>

\* the server answers 500, having read all of the body, a part or nothing:
\* the policy retries and the loop goes round while attempts remain
TransportAnswers500 ==
  /\ pure.fn = "RoundTrip"
  /\ pure.pc = "transport"
  /\ pure' = IF retrier.RetryMax - pure.i <= 0
             THEN [pure EXCEPT !.pc = "return", !.done = TRUE]
             ELSE [pure EXCEPT !.pc = "attempt", !.i = @ + 1]
  /\ UNCHANGED <<cb, retrier, tokens, calls, mutex>>

InitReplay ==
  /\ tokens = Burst
  /\ calls = [c \in Calls |-> IdleCall]
  /\ mutex = Unlocked
  /\ cb = NewBreaker
  /\ retrier \in {NewRetrier(opts) : opts \in RetrierOptions}
  /\ pure \in {NewRequestWithBody(payload) : payload \in Payloads}

NextReplay ==
  \/ TransportInvoked
  \/ TransportReadsBody
  \/ TransportAnswers500

SpecReplay == InitReplay /\ [][NextReplay]_vars

\* C29: every attempt of a call with a non-empty body, the first and each
\* retry, is handed a body stream at the start of the payload, never the
\* stream as the attempt before left it
C29_EveryAttemptFromStart ==
  (pure.fn = "RoundTrip" /\ Len(pure.in) > 0)
  => \A k \in 1..Len(pure.starts) : pure.starts[k] = 0

\* C30: a call that ends with a response that is not retried and with no
\* error hands its caller that response with the body open and unread,
\* neither closed nor drained by the round tripper
C30_ResponseBodyLeftOpen ==
  [][\A c \in Calls :
       (ReportStep(c) /\ ~calls[c].shouldRetry /\ calls[c].err = Nil)
       => /\ calls'[c].ret.res.StatusCode = calls[c].resp.StatusCode
          /\ calls'[c].ret.res.Body = "open"
  ]_vars

\* ------------------------------------------- the Counts over a long generation
\* Execute as the breaker sees it, an Admit and a Report per request, with
\* no limit on the requests of a generation: the Counts run to the end of
\* their width.
Admit(c) ==
  /\ calls[c].pc = "idle"
  /\ cb.generation < MaxGen
  /\ LET r == beforeRequest(cb)
     IN /\ cb' = r.cb
        /\ calls' = [calls EXCEPT ![c] =
             IF r.err # Nil
             THEN [IdleCall EXCEPT !.execErr = r.err]
             ELSE [IdleCall EXCEPT !.pc = "request",
                                   !.generation = r.generation]]
  /\ UNCHANGED <<retrier, tokens, mutex, pure>>

Report(c) ==
  /\ calls[c].pc = "request"
  /\ \E err \in {Nil, transportErr} :
       /\ cb' = afterRequest(cb, calls[c].generation, err = Nil)
       /\ calls' = [calls EXCEPT ![c] = [IdleCall EXCEPT !.execErr = err]]
  /\ UNCHANGED <<retrier, tokens, mutex, pure>>

NextCounts ==
  \/ \E c \in Calls : Admit(c)
  \/ \E c \in Calls : Report(c)
  \/ Tick

SpecCounts == InitOpts /\ [][NextCounts]_vars

SpecCountsFair ==
  /\ SpecCounts
  /\ \A c \in Calls : WF_vars(Report(c)) /\ WF_vars(Admit(c))
  /\ WF_vars(Tick)

\* the generation the breaker is in is not the last the model admits into
GenerationOpen == cb.generation < MaxGen

\* the step is the Report of a call admitted in the generation of the breaker
ReportOfGeneration ==
  \E c \in Calls :
    /\ calls[c].pc = "request"
    /\ calls'[c].pc = "idle"
    /\ calls[c].generation = cb.generation

StateBeingWritten ==
  IF mutex = Unlocked THEN cb.state
  ELSE CASE calls[mutex].pc = "beforeRequest" -> currentState(cb).state
         [] calls[mutex].pc = "afterRequest" ->
              afterRequest(cb, calls[mutex].generation,
                           calls[mutex].err = Nil).state
         [] OTHER -> cb.state

\* circuit.GetState returns c.breaker.state and takes no lock: it runs
\* whoever holds the mutex, and beside a critical section that writes the
\* state it returns the value before the write or the one after.  pure
\* keeps the last read: the holder of the mutex during it, and its result.
GetState ==
  /\ \E state \in {cb.state, StateBeingWritten} :
       pure' = [fn |-> "GetState", during |-> mutex, out |-> state]
  /\ pure' # pure
  /\ UNCHANGED <<cb, retrier, tokens, calls, mutex>>

NextRace ==
  \/ \E c \in Calls : LockBeforeRequest(c)
  \/ \E c \in Calls : BeforeRequestLocked(c)
  \/ \E c \in Calls : LockAfterRequest(c)
  \/ \E c \in Calls : AfterRequestLocked(c)
  \/ \E c \in Calls : HookCallsBreaker(c)
  \/ Tick
  \/ GetState

SpecRace == InitOpts /\ [][NextRace]_vars

\* C33: every access to the state, the generation, the Counts and the
\* expiry, a read through GetState too, is made with the mutex held, so no
\* read of the state runs while the Admit or the Report of a call is in its
\* critical section
C33_ReadsUnderMutex ==
  pure.fn = "GetState" => pure.during = Unlocked

====
